---------------------------- MODULE Spec2Model ----------------------------
(***************************************************************************)
(* Model of the EDA pipeline of src/eda/generate_eda_report1.py (the CLI)  *)
(* and of the column overview of src/eda/streamlit_eda.py (the dashboard). *)
(*                                                                         *)
(* A table is a record [rows, cols]; cols maps a column position to a      *)
(* column.  A column is described by its pandas dtype and by how many of   *)
(* its cells fall in each class the code distinguishes:                    *)
(*   nulls   NaN / NaT cells                                               *)
(*   dates   strings matching \d{4}-\d{2}-\d{2} that pd.to_datetime parses *)
(*   bad     strings matching the pattern that do not parse (2024-13-45)   *)
(*   digits  strings matching ^\d+$                                        *)
(*   words   any other string                                              *)
(* long tells whether the mean string length exceeds 40, nuniq is the      *)
(* number of distinct non-null values.  Object columns hold strings and    *)
(* nulls only.                                                             *)
(***************************************************************************)
EXTENDS Integers, Sequences, FiniteSets, TLC

\* ------------------------------------------------------------------ bounds
MaxRows == 10
NumCols == 2
NumFiles == 2
MaxClock == 2
MaxInvocations == 2

\* ------------------------------------------------------- program constants
DEFAULT_SAMPLE_SIZE == 500
\* MISSING_THRESHOLD = 0.3, kept as the fraction 3/10
MISSING_THRESHOLD_NUM == 3
MISSING_THRESHOLD_DEN == 10
\* 0.7 * len(df) and 0.9 * len(df), kept as tenths
DATE_TENTHS == 7
DIGIT_TENTHS == 9
\* df[col].nunique() <= 20
MAX_BAR_CARDINALITY == 20

ColIds == 1..NumCols

Min(a, b) == IF a < b THEN a ELSE b

\* ------------------------------------------------------------------ tables
Column(dt, k, d, b, g, w, lg, u) ==
    [dtype |-> dt, nulls |-> k, dates |-> d, bad |-> b, digits |-> g,
     words |-> w, long |-> lg, nuniq |-> u]

\* The value load_dataset returns on failure, and df before any load.
None == [rows |-> 0, cols |-> << >>]

NonNull(c) == c.dates + c.bad + c.digits + c.words

\* Columns pd.read_csv infers for a file of n data rows.  A string column
\* holds nulls, well-formed dates, and cells of one further class (fill).
Fills == {"bad", "digits", "words", "prose"}

StringColumn(n, k, d, f, u) ==
    LET rest == n - k - d IN
    Column("object", k, d,
           IF f = "bad" THEN rest ELSE 0,
           IF f = "digits" THEN rest ELSE 0,
           IF f \in {"words", "prose"} THEN rest ELSE 0,
           f = "prose" /\ rest > 0,
           u)

MinDistinct(n, k, d) == (IF d > 0 THEN 1 ELSE 0) + (IF n - k - d > 0 THEN 1 ELSE 0)

\* int64 and bool columns have no nulls; a numeric column with nulls is
\* float64; a header-only file (n = 0) yields object columns only.
ReadCsvColumns(n) ==
    IF n = 0 THEN {Column("object", 0, 0, 0, 0, 0, FALSE, 0)}
    ELSE {Column("int64", 0, 0, 0, 0, 0, FALSE, 1),
          Column("bool", 0, 0, 0, 0, 0, FALSE, 1)}
         \cup {Column("float64", k, 0, 0, 0, 0, FALSE, IF k < n THEN 1 ELSE 0) :
                  k \in 0..n}
         \cup {StringColumn(n, x[1], x[2], x[3], MinDistinct(n, x[1], x[2])) :
                  x \in {y \in (0..(n-1)) \X (0..n) \X Fills :
                            /\ y[1] + y[2] <= n
                            /\ (y[1] + y[2] = n) => y[3] = "words"}}

\* ------------------------------------------------- smart_convert_columns
\* df[col].str.match(r"\d{4}-\d{2}-\d{2}").sum(): re.match anchors at the
\* start only, null cells yield NaN and are skipped by sum().
DateMatches(c) == c.dates + c.bad

\* df[col].str.match(r"^\d+$").sum()
DigitMatches(c) == c.digits

\* pd.to_datetime(series, errors='ignore'): the parsed datetime64 column
\* when every non-null cell parses (nulls become NaT), else the input.
to_datetime_ignore(c) ==
    IF c.bad + c.digits + c.words = 0
    THEN [c EXCEPT !.dtype = "datetime64", !.long = FALSE]
    ELSE c

\* series.astype(str): every cell becomes a string, NaN becomes 'nan'.
astype_str(c) ==
    [c EXCEPT !.nulls = 0, !.words = @ + c.nulls,
              !.nuniq = @ + (IF c.nulls > 0 THEN 1 ELSE 0)]

\* The integer comparisons equal the float comparisons m > 0.7 * n and
\* m > 0.9 * n of the source for every n below 90 and for n = 500, 501.
smart_convert_column(c, n) ==
    IF c.dtype = "object"
    THEN IF DateMatches(c) * 10 > DATE_TENTHS * n THEN to_datetime_ignore(c)
         ELSE IF DigitMatches(c) * 10 > DIGIT_TENTHS * n THEN astype_str(c)
         ELSE c
    ELSE c

smart_convert_columns(t) ==
    [t EXCEPT !.cols = [i \in DOMAIN t.cols |-> smart_convert_column(t.cols[i], t.rows)]]

\* ------------------------------------------------ summarize_column_types
select_dtypes(t, include) == {i \in DOMAIN t.cols : t.cols[i].dtype \in include}

\* df[col].str.len().mean() > 40
MeanLenOver40(c) == c.long

summarize_column_types(t) ==
    LET cat_cols == select_dtypes(t, {"object", "category"}) IN
    [num  |-> select_dtypes(t, {"int64", "float64"}),
     cat  |-> cat_cols,
     text |-> {i \in cat_cols : MeanLenOver40(t.cols[i])},
     date |-> select_dtypes(t, {"datetime64"})]

\* streamlit_eda.py classifies the table as read, without conversion.
streamlit_column_types(t) ==
    [num  |-> select_dtypes(t, {"int64", "float64"}),
     cat  |-> select_dtypes(t, {"object", "category", "bool"}),
     date |-> select_dtypes(t, {"datetime64"})]

\* Variant: the threshold compared with >= instead of >.
HighMissingInclusive(t) ==
    {i \in DOMAIN t.cols :
        /\ t.rows > 0
        /\ t.cols[i].nulls * MISSING_THRESHOLD_DEN >= MISSING_THRESHOLD_NUM * t.rows}

\* -------------------------------------------------- check_missing_values
\* df.isnull().mean() > MISSING_THRESHOLD; the mean of no rows is NaN,
\* which compares False.  k/n > 0.3 in floats equals 10k > 3n in integers.
HighMissing(t) ==
    {i \in DOMAIN t.cols :
        /\ t.rows > 0
        /\ t.cols[i].nulls * MISSING_THRESHOLD_DEN > MISSING_THRESHOLD_NUM * t.rows}

\* a/n >= b/n for the null counts of one table
SortedDescending(t, s) ==
    \A a, b \in 1..Len(s) : a < b => t.cols[s[a]].nulls >= t.cols[s[b]].nulls

Arrangements(S) ==
    {s \in [1..Cardinality(S) -> S] : \A a, b \in 1..Cardinality(S) : a # b => s[a] # s[b]}

\* sort_values(ascending=False) is not stable: columns with equal
\* fractions come out in either order.
check_missing_values(t) ==
    {s \in Arrangements(HighMissing(t)) : SortedDescending(t, s)}


\* ------------------------------------------------------------- generators
Artifact(kind, col, n) == [kind |-> kind, col |-> col, rows |-> n]

\* {dataset}_profiling.html
generate_profile_report(t) == {Artifact("profiling", 0, 0)}

\* {dataset}_sweetviz.html
generate_sweetviz_report(t) == {Artifact("sweetviz", 0, 0)}

\* {dataset}_sample.csv with df.sample(n=min(DEFAULT_SAMPLE_SIZE, len(df)))
save_samples(t) == {Artifact("sample", 0, Min(DEFAULT_SAMPLE_SIZE, t.rows))}

\* num_df.empty holds when there is no numeric column or no row.
NumDfEmpty(t) == select_dtypes(t, {"int64", "float64"}) = {} \/ t.rows = 0

\* viz/{dataset}_correlation_heatmap.html
generate_correlation_heatmap(t) ==
    IF NumDfEmpty(t) THEN {} ELSE {Artifact("heatmap", 0, 0)}

\* Variant: the cardinality limit compared with < instead of <=.
BarColumnsStrict(t, cat_cols) == {i \in cat_cols : t.cols[i].nuniq < MAX_BAR_CARDINALITY}

\* The columns plot_categorical_distributions draws a chart for.
BarColumns(t, cat_cols) == {i \in cat_cols : t.cols[i].nuniq <= MAX_BAR_CARDINALITY}

\* viz/{dataset}_{col}_bar.html for each qualifying column
plot_categorical_distributions(t, cat_cols) ==
    {Artifact("bar", i, 0) : i \in BarColumns(t, cat_cols)}

\* ------------------------------------------------------------ load_dataset
\* What reading the file does: detect_delimiter raises (open or decode
\* error), pd.read_csv raises, or the table is read.
LoadOutcomes == {"ok", "sniff_error", "parse_error"}

\* try: ... return df / except Exception: ... return None
load_dataset(outcome, t) == IF outcome = "ok" THEN t ELSE None

\* Variant: detect_delimiter called outside the try block.
load_dataset_raises_sniff(outcome) == outcome = "sniff_error"

\* Whether an exception leaves load_dataset.
load_dataset_raises(outcome) == FALSE

\* ------------------------------------------------------ create_output_dir
NoPath == [name |-> 0, ts |-> -1]

\* f"{REPORTS_DIR}/{dataset_name}_{timestamp}", timestamp to the second
create_output_dir(name, now) == [name |-> name, ts |-> now]

\* ------------------------------------------------------------------- state
VARIABLES
    inv,          \* invocations of the script started so far
    argv,         \* parsed arguments of the current invocation
    files,        \* the list the main block iterates over
    k,            \* position in files of the file run_eda was last called on
    pc,           \* position in the script
    raw,          \* the table pd.read_csv yields for the current file
    df,           \* run_eda's df (None when the load failed)
    types,        \* num, cat, text, date of summarize_column_types
    reported,     \* columns check_missing_values printed, in print order
    output_path,  \* run_eda's output_path
    bundle,       \* artifacts the current run_eda call has written
    trace,        \* stages the current run_eda call has entered, in order
    dirs,         \* the directories under reports/
    reused,       \* os.makedirs found output_path already present
    completed,    \* positions whose "All EDA complete" line was printed
    crashed,      \* an exception ended the current invocation
    clock,        \* wall clock, in seconds
    prev,         \* arguments, output_path and success of the previous invocation
    st_pc,        \* position in streamlit_eda.py
    st_types      \* num, cat, date of the dashboard's column overview

vars == <<inv, argv, files, k, pc, raw, df, types, reported, output_path, bundle,
          trace, dirs, reused, completed, crashed, clock, prev, st_pc, st_types>>

run_vars == <<raw, df, types, reported, output_path, bundle, trace, reused>>
st_vars == <<st_pc, st_types>>

NoTypes == [num |-> {}, cat |-> {}, text |-> {}, date |-> {}]
NoStTypes == [num |-> {}, cat |-> {}, date |-> {}]
NoArgs == [all |-> FALSE, input |-> 0, skip_profile |-> FALSE,
           skip_sweetviz |-> FALSE, skip_sample |-> FALSE]

\* os.listdir("data/raw") filtered on ".csv"; files are named by position.
DataRaw == [i \in 1..NumFiles |-> i]

\* os.path.splitext(os.path.basename(file_path))[0]
dataset_name(f) == f

\* Tables of the files the pipeline runs on: no row, one row more than the
\* bar-chart cardinality limit, one row more than the sample size.
RunRowCounts == {0, MAX_BAR_CARDINALITY + 1, DEFAULT_SAMPLE_SIZE + 1}

RunColumns(n) ==
    IF n = 0 THEN ReadCsvColumns(0)
    ELSE {Column("int64", 0, 0, 0, 0, 0, FALSE, 1),
          Column("bool", 0, 0, 0, 0, 0, FALSE, 1),
          StringColumn(n, 0, n, "words", 1)}
         \cup {StringColumn(n, 0, 0, "words", u) :
                  u \in {1, MAX_BAR_CARDINALITY, MAX_BAR_CARDINALITY + 1} \cap 1..n}

RunTables ==
    UNION {{[rows |-> n, cols |-> cs] : cs \in [ColIds -> RunColumns(n)]} :
              n \in RunRowCounts}

InitCommon ==
    /\ files = << >> /\ k = 0
    /\ raw = None /\ df = None /\ types = NoTypes /\ reported = << >>
    /\ output_path = NoPath /\ bundle = {} /\ trace = << >>
    /\ dirs = {} /\ reused = FALSE /\ completed = {} /\ crashed = FALSE
    /\ clock = 0 /\ prev = [argv |-> NoArgs, path |-> NoPath, ok |-> FALSE]
    /\ st_pc = "idle" /\ st_types = NoStTypes

\* The shell before the script is started.
Init ==
    /\ inv = 0 /\ argv = NoArgs /\ pc = "shell"
    /\ InitCommon

\* Variant: the heatmap drawn before the sample export.
SuccessorHeatmapFirst(stage) ==
    CASE stage = "load"      -> "convert"
      [] stage = "convert"   -> "mkdir"
      [] stage = "mkdir"     -> "summarize"
      [] stage = "summarize" -> "audit"
      [] stage = "audit"     -> "profile"
      [] stage = "profile"   -> "sweetviz"
      [] stage = "sweetviz"  -> "heatmap"
      [] stage = "heatmap"   -> "sample"
      [] stage = "sample"    -> "bars"
      [] stage = "bars"      -> "complete"
      [] stage = "complete"  -> "loop"

\* The order of the statements of run_eda.
Successor(stage) ==
    CASE stage = "load"      -> "convert"
      [] stage = "convert"   -> "mkdir"
      [] stage = "mkdir"     -> "summarize"
      [] stage = "summarize" -> "audit"
      [] stage = "audit"     -> "profile"
      [] stage = "profile"   -> "sweetviz"
      [] stage = "sweetviz"  -> "sample"
      [] stage = "sample"    -> "heatmap"
      [] stage = "heatmap"   -> "bars"
      [] stage = "bars"      -> "complete"
      [] stage = "complete"  -> "loop"

\* ----------------------------------------------------------------- __main__
\* args = parser.parse_args() and the dispatch on args.all / args.input
Main(a) ==
    /\ pc = "shell" /\ inv = 0
    /\ inv' = 1
    /\ argv' = a
    /\ files' = IF a.all THEN DataRaw ELSE IF a.input # 0 THEN <<a.input>> ELSE << >>
    /\ k' = 0
    /\ pc' = IF a.all \/ a.input # 0 THEN "loop" ELSE "shell"
    /\ completed' = {} /\ crashed' = FALSE
    /\ UNCHANGED <<run_vars, dirs, clock, prev, st_vars>>

\* The same command line entered again after the script has ended: a new
\* process, in which nothing of the previous one is left but the files.
Again ==
    /\ pc = "shell" /\ inv >= 1 /\ inv < MaxInvocations
    /\ argv.all \/ argv.input # 0
    /\ inv' = inv + 1
    /\ prev' = [argv |-> argv, path |-> output_path, ok |-> completed # {}]
    /\ k' = 0
    /\ pc' = "loop"
    /\ completed' = {} /\ crashed' = FALSE
    /\ raw' = None /\ df' = None /\ types' = NoTypes /\ reported' = << >>
    /\ output_path' = NoPath /\ bundle' = {} /\ trace' = << >> /\ reused' = FALSE
    /\ UNCHANGED <<argv, files, dirs, clock, st_vars>>

\* for f in files: run_eda(...) -- the call, with run_eda's locals fresh
NextFile ==
    /\ pc = "loop" /\ k < Len(files)
    /\ k' = k + 1
    /\ pc' = "load"
    /\ raw' = None /\ df' = None /\ types' = NoTypes /\ reported' = << >>
    /\ output_path' = NoPath /\ bundle' = {} /\ trace' = << >> /\ reused' = FALSE
    /\ UNCHANGED <<inv, argv, files, dirs, completed, crashed, clock, prev, st_vars>>

\* The loop is exhausted: the script ends normally.
Exit ==
    /\ pc = "loop" /\ k = Len(files)
    /\ pc' = "shell"
    /\ UNCHANGED <<inv, argv, files, k, run_vars, dirs, completed, crashed, clock,
                   prev, st_vars>>

\* An uncaught exception unwinds run_eda and the loop: the script ends.
Raise ==
    /\ pc' = "shell"
    /\ crashed' = TRUE

\* ------------------------------------------------------------------ run_eda
\* df = load_dataset(file_path); if df is None: return
Load(outcome, t) ==
    /\ pc = "load"
    /\ trace' = Append(trace, "load")
    /\ raw' = IF outcome = "ok" THEN t ELSE None
    /\ IF load_dataset_raises(outcome)
       THEN /\ Raise
            /\ UNCHANGED df
       ELSE /\ df' = load_dataset(outcome, t)
            /\ pc' = IF df' = None THEN "loop" ELSE Successor(pc)
            /\ UNCHANGED crashed
    /\ UNCHANGED <<inv, argv, files, k, types, reported, output_path, bundle, dirs,
                   reused, completed, clock, prev, st_vars>>

\* df = smart_convert_columns(df)
Convert ==
    /\ pc = "convert"
    /\ df' = smart_convert_columns(df)
    /\ trace' = Append(trace, "classify")
    /\ pc' = Successor(pc)
    /\ UNCHANGED <<inv, argv, files, k, raw, types, reported, output_path, bundle,
                   dirs, reused, completed, crashed, clock, prev, st_vars>>

\* output_path = create_output_dir(dataset_name); makedirs(exist_ok=True)
Mkdir ==
    /\ pc = "mkdir"
    /\ output_path' = create_output_dir(dataset_name(files[k]), clock)
    /\ reused' = (output_path' \in dirs)
    /\ dirs' = dirs \cup {output_path'}
    /\ pc' = Successor(pc)
    /\ UNCHANGED <<inv, argv, files, k, raw, df, types, reported, bundle, trace,
                   completed, crashed, clock, prev, st_vars>>

\* num, cat, text, date = summarize_column_types(df); print_column_type_table
Summarize ==
    /\ pc = "summarize"
    /\ types' = summarize_column_types(df)
    /\ pc' = Successor(pc)
    /\ UNCHANGED <<inv, argv, files, k, raw, df, reported, output_path, bundle,
                   trace, dirs, reused, completed, crashed, clock, prev, st_vars>>

\* check_missing_values(df)
Audit ==
    /\ pc = "audit"
    /\ reported' \in check_missing_values(df)
    /\ trace' = Append(trace, "audit")
    /\ pc' = Successor(pc)
    /\ UNCHANGED <<inv, argv, files, k, raw, df, types, output_path, bundle, dirs,
                   reused, completed, crashed, clock, prev, st_vars>>

\* One optional or unconditional generator call of run_eda: skipped, or
\* entered and then either finished (its files written) or left by an
\* exception of the library it delegates to.
Generator(here, skip, out, can_fail) ==
    /\ pc = here
    /\ IF skip
       THEN /\ pc' = Successor(pc)
            /\ UNCHANGED <<bundle, trace, crashed>>
       ELSE /\ trace' = Append(trace, here)
            /\ \/ /\ bundle' = bundle \cup out
                  /\ pc' = Successor(pc)
                  /\ UNCHANGED crashed
               \/ /\ can_fail
                  /\ Raise
                  /\ UNCHANGED bundle
    /\ UNCHANGED <<inv, argv, files, k, raw, df, types, reported, output_path, dirs,
                   reused, completed, clock, prev, st_vars>>

\* if not args.skip_profile: generate_profile_report(...)
Profile == Generator("profile", argv.skip_profile, generate_profile_report(df), TRUE)

\* if not args.skip_sweetviz: generate_sweetviz_report(...)
Sweetviz == Generator("sweetviz", argv.skip_sweetviz, generate_sweetviz_report(df), TRUE)

\* if not args.skip_sample: save_samples(...)
Sample == Generator("sample", argv.skip_sample, save_samples(df), TRUE)

\* generate_correlation_heatmap(...): plotly is reached only past the
\* num_df.empty return.
Heatmap == Generator("heatmap", FALSE, generate_correlation_heatmap(df), ~NumDfEmpty(df))

\* plot_categorical_distributions(df, cat, ...): the charts of the columns
\* before the one whose chart raises are already written.
Bars ==
    /\ pc = "bars"
    /\ trace' = Append(trace, "bars")
    /\ \/ /\ bundle' = bundle \cup plot_categorical_distributions(df, types.cat)
          /\ pc' = Successor(pc)
          /\ UNCHANGED crashed
       \/ \E j \in BarColumns(df, types.cat) :
             /\ bundle' = bundle \cup
                   {a \in plot_categorical_distributions(df, types.cat) : a.col < j}
             /\ Raise
    /\ UNCHANGED <<inv, argv, files, k, raw, df, types, reported, output_path, dirs,
                   reused, completed, clock, prev, st_vars>>

\* console.print("All EDA complete for: ..."); run_eda returns
Complete ==
    /\ pc = "complete"
    /\ completed' = completed \cup {k}
    /\ pc' = Successor(pc)
    /\ UNCHANGED <<inv, argv, files, k, run_vars, dirs, crashed, clock, prev, st_vars>>

\* A second passes on the wall clock.
Tick ==
    /\ clock < MaxClock
    /\ clock' = clock + 1
    /\ UNCHANGED <<inv, argv, files, k, pc, run_vars, dirs, completed, crashed, prev,
                   st_vars>>

\* ------------------------------------------------------------ streamlit_eda
\* The column overview of the dashboard for the uploaded file, which is
\* the file the CLI reads: the table is classified as pd.read_csv gave it.
StreamlitOverview ==
    /\ st_pc = "uploaded"
    /\ st_types' = streamlit_column_types(raw)
    /\ st_pc' = "shown"
    /\ UNCHANGED <<inv, argv, files, k, pc, run_vars, dirs, completed, crashed,
                   clock, prev>>

\* ----------------------------------------------------------- specifications
Flags == {[all |-> a, input |-> i, skip_profile |-> p, skip_sweetviz |-> w,
           skip_sample |-> s] :
             a \in BOOLEAN, i \in {0, 1}, p \in BOOLEAN, w \in BOOLEAN, s \in BOOLEAN}

RunEda ==
    \/ \E o \in LoadOutcomes, t \in RunTables : Load(o, t)
    \/ Convert
    \/ Mkdir
    \/ Summarize
    \/ Audit
    \/ Profile
    \/ Sweetviz
    \/ Sample
    \/ Heatmap
    \/ Bars
    \/ Complete

\* One invocation of the script, in either mode or with neither.
Next ==
    \/ \E a \in Flags : Main(a)
    \/ NextFile
    \/ Exit
    \/ RunEda

Spec == Init /\ [][Next]_vars

\* The same single-file command entered repeatedly while the wall clock
\* runs.
NextTwice ==
    \/ \E a \in {f \in Flags : ~f.all /\ f.input # 0} : Main(a)
    \/ Again
    \/ NextFile
    \/ Exit
    \/ RunEda
    \/ Tick

SpecTwice == Init /\ [][NextTwice]_vars

\* Classification and audit of one table, applied as run_eda applies them
\* after a successful load, beside the dashboard's overview of the same
\* table.
ClassifyRowCounts == {0, 1, MaxRows}

\* Columns beside the first: numeric, boolean, all dates, words, prose.
PlainColumns(n) ==
    {c \in ReadCsvColumns(n) :
        c.dtype = "object" => c.nulls = 0 /\ c.bad = 0 /\ c.digits = 0
                              /\ (c.dates = 0 \/ c.words = 0)}

ClassifyTables(n) ==
    {[rows |-> n, cols |-> [i \in ColIds |-> IF i = 1 THEN c ELSE p[i]]] :
        c \in ReadCsvColumns(n), p \in [ColIds \ {1} -> PlainColumns(n)]}

InitClassify ==
    /\ inv = 1
    /\ argv = [NoArgs EXCEPT !.input = 1]
    /\ files = <<1>> /\ k = 1
    /\ pc = "convert"
    /\ \E n \in ClassifyRowCounts : raw \in ClassifyTables(n)
    /\ df = raw
    /\ types = NoTypes /\ reported = << >>
    /\ output_path = NoPath /\ bundle = {} /\ trace = <<"load">>
    /\ dirs = {} /\ reused = FALSE /\ completed = {} /\ crashed = FALSE
    /\ clock = 0 /\ prev = [argv |-> NoArgs, path |-> NoPath, ok |-> FALSE]
    /\ st_pc = "uploaded" /\ st_types = NoStTypes

NextClassify ==
    \/ Convert
    \/ Mkdir
    \/ Summarize
    \/ Audit
    \/ StreamlitOverview

SpecClassify == InitClassify /\ [][NextClassify]_vars

\* ------------------------------------------------------------------ claims
Classified == pc \in {"audit", "profile"}

Elems(q) == {q[j] : j \in 1..Len(q)}

Last(q) == q[Len(q)]

\* C1: when load_dataset fails for a file it returns None and run_eda does
\* nothing more for that file: no output directory, no classification, no
\* audit, no artifact, and no exception leaves run_eda.
C1_LoadFailureEndsRun ==
    (trace # << >> /\ raw = None) =>
        /\ df = None
        /\ trace = <<"load">>
        /\ pc \in {"loop", "shell"}
        /\ output_path = NoPath /\ ~reused
        /\ \A d \in dirs : d.name # dataset_name(files[k])
        /\ types = NoTypes /\ reported = << >>
        /\ bundle = {}
        /\ ~crashed

C1_Witness == trace = <<"load">> /\ raw = None /\ pc = "loop" /\ argv.all /\ k = 1

\* C2: after smart_convert_columns and summarize_column_types the four
\* sets numeric, categorical, text-like, date/time are pairwise disjoint
\* and their union is the set of all columns.
C2_FourSetsPartitionColumns ==
    Classified =>
        /\ types.num \cup types.cat \cup types.text \cup types.date = DOMAIN df.cols
        /\ types.num \cap types.cat = {}
        /\ types.num \cap types.text = {}
        /\ types.num \cap types.date = {}
        /\ types.cat \cap types.text = {}
        /\ types.cat \cap types.date = {}
        /\ types.text \cap types.date = {}

\* C3: a string column of which at least 70% of the non-null values match
\* YYYY-MM-DD is classified date/time; one of which fewer than 70% match
\* stays in the categorical/text sets.
C3_SeventyPercentOfNonNull ==
    Classified =>
        \A i \in DOMAIN raw.cols :
            LET c == raw.cols[i] IN
            (c.dtype = "object" /\ NonNull(c) > 0) =>
                /\ (c.dates + c.bad) * 10 >= 7 * NonNull(c) => i \in types.date
                /\ (c.dates + c.bad) * 10 < 7 * NonNull(c) =>
                      i \in types.cat \cup types.text /\ i \notin types.date

\* C4: check_missing_values reports exactly the columns whose fraction of
\* nulls is strictly greater than 0.3, each once, in non-increasing order
\* of that fraction.
C4_MissingAuditExactAndSorted ==
    pc = "profile" =>
        /\ \A i \in DOMAIN df.cols :
              i \in Elems(reported) <=> 10 * df.cols[i].nulls > 3 * df.rows
        /\ \A a, b \in 1..Len(reported) :
              a < b => /\ reported[a] # reported[b]
                       /\ df.cols[reported[a]].nulls >= df.cols[reported[b]].nulls

C4_Witness ==
    /\ pc = "profile"
    /\ Len(reported) >= 1
    /\ \E i \in DOMAIN df.cols :
          /\ 10 * df.cols[i].nulls = 3 * df.rows
          /\ df.rows > 0
          /\ i \notin Elems(reported)

\* C5: in batch mode a failure while one file is processed ends that file
\* only: when the script ends, run_eda has been started on every file of
\* the input directory.
C5_BatchReachesEveryFile ==
    (argv.all /\ inv >= 1 /\ pc = "shell") => k = Len(files)

\* C6: a run that loads its file, with --skip-profile and --skip-sweetviz
\* and without --skip-sample, and in which no generator fails, ends with no
\* profiling and no sweetviz report, one sample of min(500, rows) rows, a
\* heatmap exactly when the table has a numeric column, and one bar chart
\* for each categorical column of at most 20 distinct values and none for
\* any other column.
C6_BundleOnCompletion ==
    (pc = "loop" /\ k \in completed /\ argv.skip_profile /\ argv.skip_sweetviz
       /\ ~argv.skip_sample) =>
        /\ \A a \in bundle : a.kind \notin {"profiling", "sweetviz"}
        /\ \E a \in bundle :
              /\ a.kind = "sample"
              /\ a.rows = (IF df.rows < 500 THEN df.rows ELSE 500)
              /\ \A b \in bundle : b.kind = "sample" => b = a
        /\ (\E a \in bundle : a.kind = "heatmap") <=>
              (\E i \in DOMAIN df.cols : df.cols[i].dtype \in {"int64", "float64"})
        /\ Cardinality({a \in bundle : a.kind = "heatmap"}) <= 1
        /\ \A i \in DOMAIN df.cols :
              Cardinality({a \in bundle : a.kind = "bar" /\ a.col = i}) =
                 (IF i \in types.cat /\ df.cols[i].nuniq <= 20 THEN 1 ELSE 0)

C6_Witness ==
    /\ pc = "loop" /\ k \in completed
    /\ argv.skip_profile /\ argv.skip_sweetviz /\ ~argv.skip_sample
    /\ df.rows > 500
    /\ \E i, j \in types.cat : df.cols[i].nuniq = 20 /\ df.cols[j].nuniq > 20
    /\ Cardinality({a \in bundle : a.kind = "bar"}) = 1

\* C7: the same single-file invocation run twice in succession yields two
\* distinct output directories; the second run never reuses the directory
\* of the first, whatever the time between them.
C7_SecondRunHasItsOwnDirectory ==
    (inv >= 2 /\ ~argv.all /\ argv = prev.argv /\ prev.ok /\ prev.path # NoPath
       /\ output_path # NoPath) =>
        /\ output_path # prev.path
        /\ ~reused

\* C8: the dashboard's numerical, categorical and date/time groups equal
\* the numeric, categorical and date/time sets the CLI computes for the
\* same table.
C8_DashboardMatchesCli ==
    (Classified /\ st_pc = "shown") =>
        /\ st_types.num = types.num
        /\ st_types.cat = types.cat
        /\ st_types.date = types.date

\* C9: within one run_eda call the stages are entered in the order load,
\* classify, audit, profile, sweetviz, sample, heatmap, bars, each only
\* after every earlier enabled stage; when an enabled generator fails the
\* exception leaves run_eda, no later stage is entered and the completion
\* line is not printed.
StageOrder ==
    <<"load", "classify", "audit", "profile", "sweetviz", "sample", "heatmap", "bars">>

StageIndex(name) == CHOOSE j \in 1..Len(StageOrder) : StageOrder[j] = name

StageEnabled(name) ==
    /\ name = "profile" => ~argv.skip_profile
    /\ name = "sweetviz" => ~argv.skip_sweetviz
    /\ name = "sample" => ~argv.skip_sample

C9_StagesInOrderAndAbortOnFailure ==
    /\ \A a, b \in 1..Len(trace) :
          a < b => StageIndex(trace[a]) < StageIndex(trace[b])
    /\ \A a \in 1..Len(trace) : \A j \in 1..(StageIndex(trace[a]) - 1) :
          StageEnabled(StageOrder[j]) => StageOrder[j] \in Elems(trace)
    /\ crashed =>
          /\ pc = "shell"
          /\ k \notin completed
          /\ Last(trace) \in {"profile", "sweetviz", "sample", "heatmap", "bars"}
    /\ k \in completed =>
          /\ ~crashed
          /\ \A j \in 1..Len(StageOrder) :
                StageEnabled(StageOrder[j]) => StageOrder[j] \in Elems(trace)

C9_Witness ==
    /\ crashed
    /\ Last(trace) = "sweetviz"
    /\ "profile" \in Elems(trace)
    /\ ~argv.skip_sample

\* C10: when a string column meets the date threshold and some of its
\* values do not parse as dates, those cells become null, the column is
\* stored as date/time and it is placed in the date/time set.
C10_UnparseableCellsBecomeNull ==
    Classified =>
        \A i \in DOMAIN raw.cols :
            LET c == raw.cols[i]
                unparseable == c.bad + c.digits + c.words IN
            (c.dtype = "object" /\ (c.dates + c.bad) * 10 > 7 * raw.rows
               /\ unparseable > 0) =>
                /\ df.cols[i].dtype = "datetime64"
                /\ df.cols[i].nulls = c.nulls + unparseable
                /\ i \in types.date

=============================================================================
